---- MODULE Spec2Model ----
(***************************************************************************)
(* The PDF preview session of the editor (components/PdfModal.tsx, kept    *)
(* in src/unnamed/part_000), its compile request (src/api/compilePdf.ts)   *)
(* and the App component that mounts it (src/constants.ts).                *)
(*                                                                         *)
(* React is modelled at the level of its contract: a handler's state       *)
(* updates are applied in the order they are issued (an updater function   *)
(* receives the latest state), and the render and the effects the updates  *)
(* cause run before the next event is delivered.  An action is therefore   *)
(* one event (a click, a key, a promise settling) together with the        *)
(* effect cleanups and effect bodies that its state changes trigger.       *)
(* A state update on an unmounted component is dropped.                    *)
(***************************************************************************)
EXTENDS Integers, Sequences, FiniteSets, TLC

\* ---------------------------------------------------------------- bounds
MaxRequests == 2      \* compile requests issued in one run
MaxResolutions == 2   \* outline resolutions started in one run
MaxEdits == 1         \* changes of an edit buffer in one run
MaxPages == 14        \* pages of a document the page handlers are run on
MaxHistory == 3       \* edits of the buffers the histories are run on
MaxTimeline == 3      \* texts in past and future before a paired undo or redo

\* ------------------------------------------------------------- constants
FILE_NAMES == <<"Index.md", "configuracao.yaml", "referencias.bib">>

Files == {FILE_NAMES[i] : i \in 1..Len(FILE_NAMES)}

NoError == "null"
CompileFallbackMessage == "Falha ao compilar o PDF."
LoadErrorMessage == "Falha ao abrir o PDF gerado."
NetworkMessage == "Failed to fetch"

DefaultDownloadName == "document.pdf"
SuccessName == "arquivo.pdf"
ErrorName == "erro.pdf"

NullPage == 0         \* TocItem.pageNumber = null (page numbers start at 1)

\* A Blob / render handle that does not exist (null).
NoBlob == [id |-> 0, pages |-> 0, outline |-> 0]

\* toc = null: the outline has not been resolved.
\* A resolved toc records, besides its items, the handle and the outline it
\* was resolved from and the nodes whose lookup failed.
NoToc == [set |-> FALSE, from |-> 0, outline |-> 0, failed |-> {}, items |-> <<>>]

\* ------------------------------------------------ outlines of the PDFs
\* A destination: absent, an explicit array of references (a reference is
\* modelled by the 0-based index getPageIndex returns for it), or a name that
\* getDestination resolves to such an array.
NoDest == [kind |-> "none", refs |-> <<>>]
ArrayDest(refs) == [kind |-> "array", refs |-> refs]
NamedDest(refs) == [kind |-> "named", refs |-> refs]

OutlineNode(id, title, dest, items) ==
  [id |-> id, title |-> title, dest |-> dest, items |-> items]

\* The outlines getOutline can return; outline 0 is "no outline" (null).
\* Titles are sequences of characters.
Outline1 ==
  << OutlineNode(1, <<" ", "A">>, NamedDest(<<0>>),
       << OutlineNode(2, <<"B", " ">>, ArrayDest(<<1>>), <<>>),
          OutlineNode(3, <<>>, NoDest, <<>>) >>),
     OutlineNode(4, <<"C">>, ArrayDest(<<>>), <<>>),
     OutlineNode(5, <<"D">>, ArrayDest(<<1, 0>>), <<>>) >>

Outline2 ==
  << OutlineNode(1, <<"T">>, NoDest, <<>>),
     OutlineNode(2, <<"U">>, NamedDest(<<>>), <<>>) >>

Outlines == <<Outline1, Outline2>>

OutlineOf(k) == Outlines[k]

\* The documents the compiler service returns, by what the render engine
\* reports of them: the page count and the outline (0: none).
Documents ==
  { [pages |-> 1, outline |-> 0],
    [pages |-> 2, outline |-> 1],
    [pages |-> 3, outline |-> 2] }

\* ------------------------------------------------------ compilePdf.ts
\* A Content-Disposition header, by the parts the two patterns look for: the
\* extended form filename*=UTF-8''... (absent, percent-decodable or not) and
\* the simple form filename=... (absent or present).
Headers ==
  [star : {"absent", "decodable", "undecodable"}, simple : {"absent", "present"}]

\* The headers the responses of a preview session carry.
SessionHeaders ==
  { [star |-> "absent", simple |-> "absent"],
    [star |-> "absent", simple |-> "present"] }

NoName == ""
StarName == "star.pdf"
SimpleName == "simple.pdf"

extractFilenameSimpleFirst(header) ==
  IF header.simple = "present" THEN SimpleName
  ELSE IF header.star = "decodable" THEN StarName
  ELSE NoName

\* extractFilenameFromContentDisposition: the decoded extended form, else the
\* simple form, else undefined.
extractFilenameFromContentDisposition(header) ==
  IF header.star = "decodable" THEN StarName
  ELSE IF header.simple = "present" THEN SimpleName
  ELSE NoName

\* fileName: name || (res.ok ? "arquivo.pdf" : "erro.pdf")
CompiledFileName(header, ok) ==
  LET name == extractFilenameFromContentDisposition(header)
  IN IF name # NoName THEN name ELSE IF ok THEN SuccessName ELSE ErrorName

\* fetch(..., { signal }) and res.blob(): a request whose signal was aborted
\* while it was pending rejects with an AbortError, and only a request that
\* was not aborted delivers a response or a transport failure.
DeliversOutcomeNoSignal(r) == r.status = "pending"

DeliversOutcome(r) == r.status = "pending" /\ ~r.aborted

DeliversAbort(r) == r.status = "pending" /\ r.aborted

\* ------------------------------------------------- the outline resolver
RECURSIVE TrimStart(_)
TrimStart(t) ==
  IF t # <<>> /\ Head(t) = " " THEN TrimStart(Tail(t)) ELSE t

RECURSIVE TrimEnd(_)
TrimEnd(t) ==
  IF t # <<>> /\ t[Len(t)] = " " THEN TrimEnd(SubSeq(t, 1, Len(t) - 1)) ELSE t

\* String.prototype.trim on a title
Trim(t) == TrimEnd(TrimStart(t))

\* The outcome of an async function: a returned value or a thrown exception.
Return(v) == [ok |-> TRUE, val |-> v]
Throw == [ok |-> FALSE, val |-> 0]

\* Whether resolving dest awaits a lookup of the render handle at all.
HasLookup(dest) ==
  dest.kind = "named" \/ (dest.kind = "array" /\ Len(dest.refs) > 0)

\* The try block of destToPage; fails says that a lookup of this destination
\* (getDestination or getPageIndex) throws or rejects.
DestToPageTry(dest, fails) ==
  IF dest.kind = "named" /\ fails THEN Throw
  ELSE LET explicit == dest.refs
       IN IF Len(explicit) = 0 THEN Return(NullPage)
          ELSE IF fails THEN Throw
          ELSE Return(explicit[1] + 1)

DestToPageNoCatch(dest, fails) == DestToPageTry(dest, fails)

DestToPageZeroBased(dest, fails) ==
  IF dest.kind = "none" \/ Len(dest.refs) = 0 \/ fails THEN Return(NullPage)
  ELSE Return(dest.refs[1])

\* The lookups of the render handle the try block of destToPage awaits for
\* dest when none of them fails, in order: getDestination unless dest is an
\* array already, getPageIndex unless the explicit form is empty.
LookupCalls(dest) ==
  IF dest.kind = "none" THEN <<>>
  ELSE (IF dest.kind = "named" THEN <<"getDestination">> ELSE <<>>)
       \o (IF Len(dest.refs) = 0 THEN <<>> ELSE <<"getPageIndex">>)

\* destToPage: try { ... } catch { return null; }
DestToPage(dest, fails) ==
  LET r == DestToPageTry(dest, fails)
  IN IF r.ok THEN r ELSE Return(NullPage)

\* mapItems, from the k-th item on: the items in source order, each with its
\* page and then its children; F is the set of nodes whose lookup fails.
RECURSIVE MapItemsFrom(_, _, _)
MapItemsFrom(items, k, F) ==
  IF k > Len(items) THEN Return(<<>>)
  ELSE LET it == items[k]
           page == IF it.dest.kind # "none"
                   THEN DestToPage(it.dest, it.id \in F)
                   ELSE Return(NullPage)
       IN IF ~page.ok THEN Throw
          ELSE LET sub == MapItemsFrom(it.items, 1, F)
               IN IF ~sub.ok THEN Throw
                  ELSE LET rest == MapItemsFrom(items, k + 1, F)
                       IN IF ~rest.ok THEN Throw
                          ELSE Return(<< [title |-> Trim(it.title),
                                          pageNumber |-> page.val,
                                          items |-> sub.val] >> \o rest.val)

MapItemsNoChildren(items, F) ==
  MapItemsFrom([k \in 1..Len(items) |-> [items[k] EXCEPT !.items = <<>>]], 1, F)

MapItems(items, F) == MapItemsFrom(items, 1, F)

\* The nodes of an outline whose destination needs a lookup.
RECURSIVE LookupNodes(_)
LookupNodes(items) ==
  IF items = <<>> THEN {}
  ELSE (IF HasLookup(Head(items).dest) THEN {Head(items).id} ELSE {})
       \cup LookupNodes(Head(items).items) \cup LookupNodes(Tail(items))

\* The nodes in the order the loop of mapItems takes them up: for each item
\* the object literal is evaluated field by field (title, the awaited page,
\* the awaited children) before the loop moves to the next item.
RECURSIVE VisitOrder(_)
VisitOrder(items) ==
  IF items = <<>> THEN <<>>
  ELSE <<Head(items).id>> \o VisitOrder(Head(items).items)
                          \o VisitOrder(Tail(items))

\* ------------------------------------------------------- zoom and scale
\* The zoom factor is kept in units of 1/ZoomUnit, so that the error of a
\* floating-point addition (at most one unit here, far more than an ulp) and
\* the rounding of toFixed(2) to hundredths can both be told apart from the
\* exact value: useState(1) is ZoomUnit, 0.1 is ZoomStep.
ZoomUnit == 1000
ZoomStep == 100
ZoomMax == 3000
ZoomMin == 500

\* The rounding errors a floating-point addition may leave, in zoom units.
FloatError == {-1, 0, 1}

\* Number(x.toFixed(2)): the nearest value with two decimals.
toFixed2(x) == ((x + 5) \div 10) * 10

zoomInNoRounding(z, e) ==
  IF z + ZoomStep + e > ZoomMax THEN ZoomMax ELSE z + ZoomStep + e

zoomOutNoClamp(z, e) == toFixed2(z - ZoomStep + e)

\* zoomIn: (z) => Math.min(3, Number((z + 0.1).toFixed(2))), e being the
\* error of the addition
zoomIn(z, e) ==
  IF toFixed2(z + ZoomStep + e) > ZoomMax THEN ZoomMax
  ELSE toFixed2(z + ZoomStep + e)

\* zoomOut: (z) => Math.max(0.5, Number((z - 0.1).toFixed(2)))
zoomOut(z, e) ==
  IF toFixed2(z - ZoomStep + e) < ZoomMin THEN ZoomMin
  ELSE toFixed2(z - ZoomStep + e)

\* fitWidth: setZoom(1)
fitWidth == ZoomUnit

\* A JavaScript number as the quotient n/d of two integers, d >= 0: a finite
\* number has d > 0; 1/0 is Infinity, -1/0 is -Infinity and 0/0 is NaN.
Num(n, d) == [n |-> n, d |-> d]
One == Num(1, 1)
Infinity == Num(1, 0)
NegInfinity == Num(-1, 0)
NaN == Num(0, 0)

\* Number.isFinite
IsFinite(x) == x.d # 0

\* x || 1: 0 and NaN are falsy
OrOne(x) == IF x.n # 0 THEN x ELSE One

\* a * b   (Infinity * 0 is NaN)
Times(a, b) == Num(a.n * b.n, a.d * b.d)

\* a <= b on finite numbers
LessEq(a, b) == a.n * b.d <= b.n * a.d

\* Math.max and Math.min on finite numbers
MathMax(a, b) == IF LessEq(a, b) THEN b ELSE a
MathMin(a, b) == IF LessEq(a, b) THEN a ELSE b

\* The limits of the render scale: 0.25 and 5
ScaleMin == Num(1, 4)
ScaleMax == Num(5, 1)

\* baseScale: if (!origW || viewerWidth <= 0) return 1;
\*            return viewerWidth / origW;
baseScale(ow, vw) == IF ow = 0 \/ vw <= 0 THEN One ELSE Num(vw, ow)

effectiveScaleNoClamp(bs, z) ==
  LET raw == Times(OrOne(bs), OrOne(Num(z, ZoomUnit)))
  IN IF ~IsFinite(raw) THEN One ELSE raw

\* effectiveScale: raw = (baseScale || 1) * (zoom || 1);
\* if (!Number.isFinite(raw)) return 1;
\* return Math.min(5, Math.max(0.25, raw));
effectiveScale(bs, z) ==
  LET raw == Times(OrOne(bs), OrOne(Num(z, ZoomUnit)))
  IN IF ~IsFinite(raw) THEN One ELSE MathMin(ScaleMax, MathMax(ScaleMin, raw))

\* The widths the viewer element takes and the widths pages report (0: a
\* page without a width).
DefaultWidth == 3
ClientWidths == {0, 1, 3, 8}
PageWidths == {0, 1, 8}

\* ------------------------------------------------------------- state
VARIABLES
  contents,      \* App: the present of each edit buffer (the props of PdfModal)
  isOpen,        \* App: isPdfOpen; PdfModal is mounted exactly when it is set
  reqs,          \* the compile requests issued so far, oldest first
  isLoading, error, pdfBlob, objectUrl, downloadName,
  docProxy, numPages, pageNumber,
  showToc, toc, tocLoading,
  loadedFile,    \* react-pdf Document: the blob whose load it has reported
  resolutions,   \* the runs of the async function of the TOC effect
  activeRes,     \* the run whose effect cleanup is registered (0: none)
  created,       \* URL.createObjectURL: the URLs created (named by request)
  revokeCount,   \* URL.revokeObjectURL: the calls made, per URL
  edits,         \* the number of buffer changes so far
  viewerWidth,   \* PdfModal: the measured width of the viewer element
  origW,         \* PdfModal: the width of the first page loaded (0: null)
  zoom,          \* PdfModal: the zoom factor, in units of 1/ZoomUnit
  clientWidth,   \* the DOM: el.clientWidth of the viewer element
  past, future,  \* App: history[f].past and history[f].future of each buffer
  activeFile     \* App: the file whose buffer the editor shows

sessionVars ==
  <<isLoading, error, pdfBlob, objectUrl, downloadName>>
viewVars == <<docProxy, numPages, pageNumber, loadedFile>>
tocVars == <<showToc, toc, tocLoading, resolutions, activeRes>>
urlVars == <<created, revokeCount>>
scaleVars == <<viewerWidth, origW, zoom>>
histVars == <<past, future, activeFile>>
vars ==
  <<contents, isOpen, reqs, sessionVars, viewVars, tocVars, urlVars, edits,
    scaleVars, clientWidth, histVars>>

\* The texts a buffer can hold.
Contents == {"initial", "edited"}

\* INITIAL_FILE_CONTENTS: every buffer starts with its initial text.
INITIAL_FILE_CONTENTS == [f \in Files |-> "initial"]

\* The download name, with the request it came from (0: the initial value).
InitialDownloadName == [req |-> 0, name |-> DefaultDownloadName]

Init ==
  /\ contents = INITIAL_FILE_CONTENTS
  /\ isOpen = FALSE
  /\ reqs = <<>>
  /\ isLoading = FALSE
  /\ error = NoError
  /\ pdfBlob = NoBlob
  /\ objectUrl = 0
  /\ downloadName = InitialDownloadName
  /\ docProxy = NoBlob
  /\ numPages = 0
  /\ pageNumber = 1
  /\ showToc = FALSE
  /\ toc = NoToc
  /\ tocLoading = FALSE
  /\ loadedFile = 0
  /\ resolutions = <<>>
  /\ activeRes = 0
  /\ created = {}
  /\ revokeCount = [u \in {} |-> 0]
  /\ edits = 0
  /\ viewerWidth = 0
  /\ origW = 0
  /\ zoom = ZoomUnit
  /\ clientWidth = DefaultWidth
  /\ past = [f \in Files |-> <<>>]
  /\ future = [f \in Files |-> <<>>]
  /\ activeFile = FILE_NAMES[1]

\* ---------------------------------------------------- the object URLs
Revokes(u) == IF u \in DOMAIN revokeCount THEN revokeCount[u] ELSE 0

\* The URLs created and not revoked.
LiveUrls == {u \in created : Revokes(u) = 0}

\* URL.revokeObjectURL(u), on the record rc of the calls made
RevokeObjectURL(rc, u) ==
  [v \in DOMAIN rc \cup {u} |->
     IF v = u THEN (IF u \in DOMAIN rc THEN rc[u] ELSE 0) + 1 ELSE rc[v]]

ReleaseUpdaterNoRevoke(rc, old) == rc

ReleaseUpdaterNoGuard(rc, old) == RevokeObjectURL(rc, old)

\* The updater (old) => { if (old) URL.revokeObjectURL(old); return null; }
\* applied to the state old: the record of revoke calls afterwards.
ReleaseUpdater(rc, old) == IF old # 0 THEN RevokeObjectURL(rc, old) ELSE rc

\* The state the updater returns: null.
ReleaseUpdaterReturns(old) == 0

\* ------------------------------------------------- the compile effect
\* The value undefined as the present of a buffer.
Undefined == "undefined"

\* The props of PdfModal: history[f]?.present ?? '' of each buffer.
Snapshot(c) == [f \in Files |-> IF c[f] = Undefined THEN "" ELSE c[f]]

NewRequestInitialPayload(payload) ==
  [payload |-> INITIAL_FILE_CONTENTS, live |-> TRUE, aborted |-> FALSE,
   status |-> "pending"]

\* A request as issued by the effect: its payload, whether its component is
\* still mounted (live), whether ctrl.abort() was called while it was pending
\* (an abort after the request settled does nothing), and how it settled.
NewRequest(payload) ==
  [payload |-> payload, live |-> TRUE, aborted |-> FALSE, status |-> "pending"]

\* The request of the effect that is registered now: the last one issued.
Current == Len(reqs)

\* ctrl.abort() in the cleanup of the registered effect
AbortCurrentNever(rs) == rs

AbortCurrent(rs) ==
  IF Len(rs) > 0 /\ rs[Len(rs)].live /\ rs[Len(rs)].status = "pending"
  THEN [rs EXCEPT ![Len(rs)].aborted = TRUE]
  ELSE rs

\* The body of the effect: the four state updates, then compilePdf(...) with
\* the props of this render; rs and rc are the requests and the revoke calls
\* after the cleanup (if any), old is the objectUrl state the updater receives.
CompileEffectBody(rs, rc, old, props) ==
  /\ isLoading' = TRUE
  /\ error' = NoError
  /\ pdfBlob' = NoBlob
  /\ objectUrl' = ReleaseUpdaterReturns(old)
  /\ revokeCount' = ReleaseUpdater(rc, old)
  /\ reqs' = Append(rs, NewRequest(props))

\* generatePdf: setIsPdfOpen(true) mounts PdfModal with its initial state and
\* its effects run: the compile effect, and the resize effect, which
\* measures the viewer element (setViewerWidth(el.clientWidth)).
OpenModal ==
  /\ ~isOpen
  /\ Len(reqs) < MaxRequests
  /\ isOpen' = TRUE
  /\ CompileEffectBody(reqs, revokeCount, objectUrl, Snapshot(contents))
  /\ viewerWidth' = clientWidth
  /\ UNCHANGED <<contents, downloadName, viewVars, tocVars, created, edits,
                 origW, zoom, clientWidth, histVars>>

\* ------------------------------------------------- the edit histories
\* The HistoryState of the buffer f.
HistoryOf(f) == [past |-> past[f], present |-> contents[f], future |-> future[f]]

canUndo(h) == Len(h.past) > 0
canRedo(h) == Len(h.future) > 0

recordChangeKeepsFuture(h, newContent) ==
  IF h.present = newContent THEN h
  ELSE [past |-> Append(h.past, h.present), present |-> newContent,
        future |-> h.future]

recordChangeAlways(h, newContent) ==
  [past |-> Append(h.past, h.present), present |-> newContent,
   future |-> <<>>]

\* recordChange(newContent): the updater of setHistory, on h = prev[activeFile]
recordChange(h, newContent) ==
  IF h.present = newContent THEN h
  ELSE [past |-> Append(h.past, h.present), present |-> newContent,
        future |-> <<>>]

handleUndoAppendsFuture(h) ==
  [past |-> SubSeq(h.past, 1, Len(h.past) - 1),
   present |-> h.past[Len(h.past)],
   future |-> Append(h.future, h.present)]

\* handleUndo: the updater of setHistory, on h = prev[activeFile]. The updater
\* has no test of its own: on an empty past, h.past[h.past.length - 1] is
\* undefined and h.past.slice(0, -1) is empty.
handleUndo(h) ==
  [past |-> IF h.past = <<>> THEN <<>> ELSE SubSeq(h.past, 1, Len(h.past) - 1),
   present |-> IF h.past = <<>> THEN Undefined ELSE h.past[Len(h.past)],
   future |-> <<h.present>> \o h.future]

handleRedoDropsPresent(h) ==
  [past |-> h.past,
   present |-> Head(h.future),
   future |-> Tail(h.future)]

\* handleRedo: the updater of setHistory, on h = prev[activeFile]. On an empty
\* future, h.future[0] is undefined and h.future.slice(1) is empty.
handleRedo(h) ==
  [past |-> Append(h.past, h.present),
   present |-> IF h.future = <<>> THEN Undefined ELSE Head(h.future),
   future |-> IF h.future = <<>> THEN <<>> ELSE Tail(h.future)]

WithFileAll(m, f, x) == [g \in DOMAIN m |-> x]

\* { ...prev, [activeFile]: x }
WithFile(m, f, x) == [m EXCEPT ![f] = x]

\* setHistory gives the buffer f the history h. With the modal open and the
\* present of a buffer changed, the props of PdfModal change: the cleanup of
\* the compile effect runs (abort, release), then its body.
StoreHistory(f, h) ==
  /\ contents' = WithFile(contents, f, h.present)
  /\ past' = WithFile(past, f, h.past)
  /\ future' = WithFile(future, f, h.future)
  /\ IF isOpen /\ Snapshot(contents') # Snapshot(contents)
     THEN /\ Len(reqs) < MaxRequests
          /\ CompileEffectBody(AbortCurrent(reqs),
                               ReleaseUpdater(revokeCount, objectUrl),
                               ReleaseUpdaterReturns(objectUrl),
                               Snapshot(contents'))
     ELSE UNCHANGED <<reqs, sessionVars, revokeCount>>
  /\ UNCHANGED <<isOpen, downloadName, viewVars, tocVars, created,
                 scaleVars, clientWidth, activeFile>>

\* handleContentChange (or a formatting action of the toolbar): the editor
\* reports the text v, which differs from the one it shows, and
\* recordChange(v) stores it in the active buffer.
RecordEdit(v) ==
  /\ v # contents[activeFile]
  /\ edits' = edits + 1
  /\ StoreHistory(activeFile, recordChange(HistoryOf(activeFile), v))

\* An edit of the buffer f, which is the active one, within the budget of the
\* preview session.
ChangeBuffer(f, v) ==
  /\ f = activeFile
  /\ edits < MaxEdits
  /\ RecordEdit(v)

\* An edit of the active buffer within the budget of the history.
HandleContentChange(v) ==
  /\ edits < MaxHistory
  /\ RecordEdit(v)

\* handleFormat of the Markdown toolbar (shown for Index.md) when the text it
\* builds equals the text of the editor (a rule over a selected "---" line
\* at the start of the text): recordChange is called with the present.
HandleFormatUnchanged ==
  /\ activeFile = "Index.md"
  /\ StoreHistory(activeFile,
                  recordChange(HistoryOf(activeFile), contents[activeFile]))
  /\ edits' = edits

\* handleUndo (the toolbar button or Ctrl+Z): if (!canUndo) return;
HandleUndo ==
  /\ canUndo(HistoryOf(activeFile))
  /\ StoreHistory(activeFile, handleUndo(HistoryOf(activeFile)))
  /\ edits' = edits

\* handleRedo (the toolbar button, Ctrl+Shift+Z or Ctrl+Y):
\* if (!canRedo) return;
HandleRedo ==
  /\ canRedo(HistoryOf(activeFile))
  /\ StoreHistory(activeFile, handleRedo(HistoryOf(activeFile)))
  /\ edits' = edits

\* The paired events are taken while the past and the future of the active
\* buffer hold fewer than MaxTimeline texts together (a pair on a history
\* with a single step adds one).
\* Two undo events are handled in one render of App (two keydown events
\* reach the window listener before the update of the first is rendered):
\* both calls of handleUndo test the canUndo of that render, and both
\* updaters are applied, the second to the result of the first.
UndoTwiceInOneRender ==
  /\ Len(past[activeFile]) + Len(future[activeFile]) < MaxTimeline
  /\ canUndo(HistoryOf(activeFile))
  /\ StoreHistory(activeFile, handleUndo(handleUndo(HistoryOf(activeFile))))
  /\ edits' = edits

\* Two redo events are handled in one render of App.
RedoTwiceInOneRender ==
  /\ Len(past[activeFile]) + Len(future[activeFile]) < MaxTimeline
  /\ canRedo(HistoryOf(activeFile))
  /\ StoreHistory(activeFile, handleRedo(handleRedo(HistoryOf(activeFile))))
  /\ edits' = edits

\* A tab of FileTabs: onTabClick={setActiveFile}
SetActiveFile(f) ==
  /\ activeFile' = f
  /\ UNCHANGED <<contents, isOpen, reqs, sessionVars, viewVars, tocVars,
                 urlVars, edits, scaleVars, clientWidth, past, future>>

\* closePdfModal: setIsPdfOpen(false) unmounts PdfModal. Both effect cleanups
\* run and the component's state is discarded. The runs of the TOC effect are
\* then cancelled and their setters dropped: they are followed no further.
\* The release updater of the compile effect's cleanup is applied to the
\* objectUrl state of the last render.
CloseModal ==
  /\ isOpen
  /\ isOpen' = FALSE
  /\ reqs' = [i \in DOMAIN reqs |-> [AbortCurrent(reqs)[i] EXCEPT !.live = FALSE]]
  /\ revokeCount' = ReleaseUpdater(revokeCount, objectUrl)
  /\ resolutions' = <<>>
  /\ activeRes' = 0
  /\ isLoading' = FALSE
  /\ error' = NoError
  /\ pdfBlob' = NoBlob
  /\ objectUrl' = 0
  /\ downloadName' = InitialDownloadName
  /\ docProxy' = NoBlob
  /\ numPages' = 0
  /\ pageNumber' = 1
  /\ loadedFile' = 0
  /\ showToc' = FALSE
  /\ toc' = NoToc
  /\ tocLoading' = FALSE
  /\ viewerWidth' = 0
  /\ origW' = 0
  /\ zoom' = ZoomUnit
  /\ UNCHANGED <<contents, created, edits, clientWidth, histVars>>

CatchHandlerNoAbortCheck(err, e) ==
  IF err.message # "" THEN err.message ELSE CompileFallbackMessage

CatchHandlerNoFallback(err, e) ==
  IF err.name = "AbortError" THEN e ELSE err.message

\* .catch((err) => { if (err?.name === 'AbortError') return; setError(...) }):
\* the error state after the handler, from the error state e before it.
CatchHandler(err, e) ==
  IF err.name = "AbortError" THEN e
  ELSE IF err.message # "" THEN err.message ELSE CompileFallbackMessage

FinallyHandlerKeeps(r, l) == l

\* .finally(() => setIsLoading(false)): the isLoading state after the handler
\* of the request r, from the state l before it.
FinallyHandler(r, l) == FALSE

TransportErrors ==
  { [name |-> "TypeError", message |-> NetworkMessage],
    [name |-> "Error", message |-> ""] }

AbortError == [name |-> "AbortError", message |-> "The operation was aborted."]

\* The promise of request i rejects with err: .catch, then .finally.
RequestRejects(i, err, status) ==
  /\ reqs' = [reqs EXCEPT ![i].status = status]
  /\ IF reqs[i].live
     THEN /\ error' = CatchHandler(err, error)
          /\ isLoading' = FinallyHandler(reqs[i], isLoading)
          /\ UNCHANGED <<pdfBlob, objectUrl, downloadName>>
     ELSE UNCHANGED sessionVars
  /\ UNCHANGED <<contents, isOpen, viewVars, tocVars, urlVars, edits,
                 scaleVars, clientWidth, histVars>>

compilePdfThrowsOnFailure(blob, header, ok) ==
  IF ok THEN Return([blob |-> blob, fileName |-> CompiledFileName(header, ok)])
  ELSE Throw

\* compilePdf once fetch and res.blob() have delivered: it returns the body
\* and a file name whatever res.ok is (it has no throw of its own).
compilePdf(blob, header, ok) ==
  Return([blob |-> blob, fileName |-> CompiledFileName(header, ok)])

\* The response of request i arrives, with the status ok, the header and the
\* document doc as its body: .then stores the blob, the name and a new object
\* URL; .finally follows. The URL is created even when the component is
\* gone; the state updates are then dropped. A throw of compilePdf goes to
\* .catch instead.
ResponseArrives(i, ok, header, doc) ==
  LET body == [id |-> i, pages |-> doc.pages, outline |-> doc.outline]
      res == compilePdf(body, header, ok)
  IN IF res.ok
     THEN /\ reqs' = [reqs EXCEPT ![i].status = "fulfilled"]
          /\ created' = created \cup {i}
          /\ IF reqs[i].live
             THEN /\ pdfBlob' = res.val.blob
                  /\ downloadName' = IF res.val.fileName # NoName
                                     THEN [req |-> i, name |-> res.val.fileName]
                                     ELSE downloadName
                  /\ objectUrl' = i
                  /\ isLoading' = FinallyHandler(reqs[i], isLoading)
                  /\ error' = error
             ELSE UNCHANGED sessionVars
          /\ UNCHANGED <<contents, isOpen, viewVars, tocVars, revokeCount, edits,
                 scaleVars, clientWidth, histVars>>
     ELSE RequestRejects(i, [name |-> "Error", message |-> ""], "rejected")

\* The promise of fetch and res.blob() of request i is fulfilled.
ResolveRequest(i) ==
  /\ i \in DOMAIN reqs
  /\ DeliversOutcome(reqs[i])
  /\ \E ok \in BOOLEAN, header \in SessionHeaders, doc \in Documents :
       ResponseArrives(i, ok, header, doc)

\* fetch or res.blob() of request i fails (network, CORS, broken body).
RejectRequest(i) ==
  /\ i \in DOMAIN reqs
  /\ DeliversOutcome(reqs[i])
  /\ \E err \in TransportErrors : RequestRejects(i, err, "rejected")

\* The aborted request i rejects with an AbortError.
AbortSettles(i) ==
  /\ i \in DOMAIN reqs
  /\ DeliversAbort(reqs[i])
  /\ RequestRejects(i, AbortError, "aborted")

\* ------------------------------------------------------ the TOC effect
\* A run of the async function of the effect, started for the handle dp: it
\* awaits getOutline ("outline"), then the lookups of the nodes ("lookups"),
\* and ends returning ("done") or rejected ("outlineFailed", "mapFailed").
NewResolution(dp) ==
  [doc |-> dp.id, outline |-> dp.outline, cancelled |-> FALSE, pc |-> "outline"]

Running(r) == r.pc \in {"outline", "lookups"}

\* The run i ends with pc: only the handle it called is kept of it.
Ended(i, pc) ==
  [resolutions EXCEPT ![i] = [doc |-> @.doc, outline |-> 0,
                              cancelled |-> FALSE, pc |-> pc]]

TocEffectSkipsEmptyFalsy(st, dp, tc) ==
  ~st \/ dp.id = 0 \/ (tc.set /\ Len(tc.items) > 0)

\* if (!showToc || !docProxy || toc) return;   (an empty array is truthy)
TocEffectSkips(st, dp, tc) == ~st \/ dp.id = 0 \/ tc.set

\* return () => { cancelled = true; }  on the run a of the runs rs (the flag
\* of a run that has ended is read by nothing)
TocCleanup(rs, a) ==
  IF a # 0 /\ Running(rs[a]) THEN [rs EXCEPT ![a].cancelled = TRUE] ELSE rs

\* The effect of the dependency list [showToc, docProxy, toc] after a handler
\* that leaves these at st, dp, tc, the runs at rs and tocLoading at tl: when
\* a dependency changed, the registered cleanup runs and then the body, which
\* returns early or starts a run (setTocLoading(true), docProxy.getOutline()).
TocEffect(st, dp, tc, rs, tl) ==
  IF st = showToc /\ dp = docProxy /\ tc = toc
  THEN /\ resolutions' = rs
       /\ activeRes' = activeRes
       /\ tocLoading' = tl
  ELSE IF TocEffectSkips(st, dp, tc)
  THEN /\ resolutions' = TocCleanup(rs, activeRes)
       /\ activeRes' = 0
       /\ tocLoading' = tl
  ELSE /\ resolutions' = Append(TocCleanup(rs, activeRes), NewResolution(dp))
       /\ activeRes' = Len(rs) + 1
       /\ tocLoading' = TRUE

\* The run budget: a handler that would start a run is taken only while
\* fewer than MaxResolutions were started.
WithinRuns(st, dp, tc) ==
  \/ (st = showToc /\ dp = docProxy /\ tc = toc)
  \/ TocEffectSkips(st, dp, tc)
  \/ Len(resolutions) < MaxResolutions

\* The toolbar is rendered when !isLoading.
ToolbarShown == isOpen /\ ~isLoading

\* The TOC button: setShowToc((s) => !s). The TOC effect and the resize
\* effect have showToc among their dependencies: the latter measures the
\* viewer element again.
ToggleToc ==
  /\ ToolbarShown
  /\ WithinRuns(~showToc, docProxy, toc)
  /\ showToc' = ~showToc
  /\ toc' = toc
  /\ TocEffect(~showToc, docProxy, toc, resolutions, tocLoading)
  /\ viewerWidth' = clientWidth
  /\ UNCHANGED <<contents, isOpen, reqs, sessionVars, viewVars, urlVars, edits,
                 origW, zoom, clientWidth, histVars>>

\* ------------------------------------------------ the Document element
\* <Document file={pdfBlob}> is rendered when !isLoading, !error and pdfBlob.
DocumentShown == isOpen /\ ~isLoading /\ error = NoError /\ pdfBlob.id # 0

\* The Document loads its file once and reports the outcome.
LoadPending == DocumentShown /\ loadedFile # pdfBlob.id

\* onLoadSuccess={(doc) => { setDocProxy(doc); setNumPages(doc.numPages);
\* setPageNumber(1); }}
LoadSuccess ==
  /\ LoadPending
  /\ WithinRuns(showToc, pdfBlob, toc)
  /\ loadedFile' = pdfBlob.id
  /\ docProxy' = pdfBlob
  /\ numPages' = pdfBlob.pages
  /\ pageNumber' = 1
  /\ UNCHANGED <<showToc, toc>>
  /\ TocEffect(showToc, pdfBlob, toc, resolutions, tocLoading)
  /\ UNCHANGED <<contents, isOpen, reqs, sessionVars, urlVars, edits,
                 scaleVars, clientWidth, histVars>>

\* onLoadError={() => setError('Falha ao abrir o PDF gerado.')}
LoadError ==
  /\ LoadPending
  /\ loadedFile' = pdfBlob.id
  /\ error' = LoadErrorMessage
  /\ UNCHANGED <<contents, isOpen, reqs, isLoading, pdfBlob, objectUrl,
                 downloadName, docProxy, numPages, pageNumber, tocVars,
                 urlVars, edits,
                 scaleVars, clientWidth, histVars>>

\* ------------------------------------------- the runs of the TOC effect
\* } finally { if (!cancelled) setTocLoading(false); }
FinallyTocLoading(r, tl) == IF ~r.cancelled THEN FALSE ELSE tl

\* The tail of the run i once its lookups have settled, F being the nodes
\* whose lookup failed: setToc(await mapItems(outline)), then the finally
\* block. A throw of mapItems skips setToc and leaves the promise rejected.
FinishRun(i, F) ==
  LET r == resolutions[i]
      result == MapItems(OutlineOf(r.outline), F)
      tc == IF result.ok
            THEN [set |-> TRUE, from |-> r.doc, outline |-> r.outline,
                  failed |-> F, items |-> result.val]
            ELSE toc
  IN /\ toc' = tc
     /\ TocEffect(showToc, docProxy, tc,
                  Ended(i, IF result.ok THEN "done" ELSE "mapFailed"),
                  FinallyTocLoading(r, tocLoading))

\* await docProxy.getOutline() of run i returns.
GetOutlineReturns(i) ==
  /\ i \in DOMAIN resolutions
  /\ resolutions[i].pc = "outline"
  /\ LET r == resolutions[i]
     IN IF r.cancelled
        THEN \* if (cancelled) return;
             /\ resolutions' = Ended(i, "done")
             /\ UNCHANGED <<toc, tocLoading, activeRes>>
        ELSE IF r.outline = 0
        THEN \* if (!outline) { setToc([]); setTocLoading(false); return; }
             LET tc == [set |-> TRUE, from |-> r.doc, outline |-> 0,
                        failed |-> {}, items |-> <<>>]
             IN /\ toc' = tc
                /\ TocEffect(showToc, docProxy, tc, Ended(i, "done"), FALSE)
        ELSE IF LookupNodes(OutlineOf(r.outline)) = {}
        THEN FinishRun(i, {})
        ELSE /\ resolutions' = [resolutions EXCEPT ![i].pc = "lookups"]
             /\ UNCHANGED <<toc, tocLoading, activeRes>>
  /\ showToc' = showToc
  /\ UNCHANGED <<contents, isOpen, reqs, sessionVars, viewVars, urlVars, edits,
                 scaleVars, clientWidth, histVars>>

\* await docProxy.getOutline() of run i rejects: the finally block runs and
\* the rejection leaves the async function.
GetOutlineRejects(i) ==
  /\ i \in DOMAIN resolutions
  /\ resolutions[i].pc = "outline"
  /\ resolutions' = Ended(i, "outlineFailed")
  /\ tocLoading' = FinallyTocLoading(resolutions[i], tocLoading)
  /\ UNCHANGED <<showToc, toc, activeRes>>
  /\ UNCHANGED <<contents, isOpen, reqs, sessionVars, viewVars, urlVars, edits,
                 scaleVars, clientWidth, histVars>>

\* The lookups of run i (getDestination, getPageIndex, node after node)
\* settle, those of the nodes in F by throwing; the run then finishes. The
\* lookups read and write no state of the component, so the awaits between
\* them are not separate steps.
LookupsSettle(i) ==
  /\ i \in DOMAIN resolutions
  /\ resolutions[i].pc = "lookups"
  /\ \E F \in SUBSET LookupNodes(OutlineOf(resolutions[i].outline)) :
       FinishRun(i, F)
  /\ showToc' = showToc
  /\ UNCHANGED <<contents, isOpen, reqs, sessionVars, viewVars, urlVars, edits,
                 scaleVars, clientWidth, histVars>>

\* ------------------------------------------------------ zoom and resize
\* The scale passed to <Page scale={effectiveScale}>: both useMemo values
\* are recomputed from the state of the render.
EffectiveScale == effectiveScale(baseScale(origW, viewerWidth), zoom)

\* The three zoom buttons of the toolbar. withInteraction also raises the
\* interacting flag for 200 ms; the flag only switches the text and
\* annotation layers of the page off and is not part of the state here.
ZoomIn ==
  /\ ToolbarShown
  /\ \E e \in FloatError : zoom' = zoomIn(zoom, e)
  /\ UNCHANGED <<contents, isOpen, reqs, sessionVars, viewVars, tocVars,
                 urlVars, edits, viewerWidth, origW, clientWidth, histVars>>

ZoomOut ==
  /\ ToolbarShown
  /\ \E e \in FloatError : zoom' = zoomOut(zoom, e)
  /\ UNCHANGED <<contents, isOpen, reqs, sessionVars, viewVars, tocVars,
                 urlVars, edits, viewerWidth, origW, clientWidth, histVars>>

FitWidth ==
  /\ ToolbarShown
  /\ zoom' = fitWidth
  /\ UNCHANGED <<contents, isOpen, reqs, sessionVars, viewVars, tocVars,
                 urlVars, edits, viewerWidth, origW, clientWidth, histVars>>

\* The layout gives the viewer element of the open modal the width w.
WindowResize(w) ==
  /\ isOpen
  /\ clientWidth' = w
  /\ UNCHANGED <<contents, isOpen, reqs, sessionVars, viewVars, tocVars,
                 urlVars, edits, scaleVars, histVars>>

\* The ResizeObserver of the resize effect reports, and the animation frame
\* it requested runs: setViewerWidth(el.clientWidth).
ObserveResize ==
  /\ isOpen
  /\ viewerWidth' = clientWidth
  /\ UNCHANGED <<contents, isOpen, reqs, sessionVars, viewVars, tocVars,
                 urlVars, edits, origW, zoom, clientWidth, histVars>>

\* The Page element is rendered inside the Document once the file is loaded.
PageShown == DocumentShown /\ loadedFile = pdfBlob.id /\ docProxy = pdfBlob

origWAfterPageLoadUnguarded(ow, w) == IF w # 0 THEN w ELSE ow

\* if (!origW && w) setOrigW(w);  the origW state afterwards
origWAfterPageLoad(ow, w) == IF ow = 0 /\ w # 0 THEN w ELSE ow

\* <Page onLoadSuccess>: w = page.originalWidth ?? page.width;
\* if (!origW && w) setOrigW(w);
PageLoadSuccess(w) ==
  /\ PageShown
  /\ origW' = origWAfterPageLoad(origW, w)
  /\ UNCHANGED <<contents, isOpen, reqs, sessionVars, viewVars, tocVars,
                 urlVars, edits, viewerWidth, zoom, clientWidth, histVars>>

\* ------------------------------------------------------ page navigation
Max(a, b) == IF a > b THEN a ELSE b

Min(a, b) == IF a < b THEN a ELSE b

prevPageNoClamp(p) == p - 1

\* prevPage: setPageNumber((p) => Math.max(1, p - 1))
prevPage(p) == Max(1, p - 1)

\* nextPage: setPageNumber((p) => Math.min(numPages, p + 1)), n being the
\* numPages of the render the callback was made in
nextPage(n, p) == Min(n, p + 1)

\* The handler prevPage runs.
PrevPageCalled ==
  /\ isOpen
  /\ pageNumber' = prevPage(pageNumber)
  /\ UNCHANGED <<contents, isOpen, reqs, sessionVars, docProxy, numPages,
                 loadedFile, tocVars, urlVars, edits,
                 scaleVars, clientWidth, histVars>>

\* The handler nextPage runs.
NextPageCalled ==
  /\ isOpen
  /\ pageNumber' = nextPage(numPages, pageNumber)
  /\ UNCHANGED <<contents, isOpen, reqs, sessionVars, docProxy, numPages,
                 loadedFile, tocVars, urlVars, edits,
                 scaleVars, clientWidth, histVars>>

\* The previous-page button of the toolbar: disabled={pageNumber <= 1}
ClickPrevPage ==
  /\ ToolbarShown
  /\ ~(pageNumber <= 1)
  /\ PrevPageCalled

\* The next-page button of the toolbar: disabled={pageNumber >= numPages}
ClickNextPage ==
  /\ ToolbarShown
  /\ ~(pageNumber >= numPages)
  /\ NextPageCalled

\* The pages the entries of a tree lead to (null left out).
RECURSIVE TocPages(_)
TocPages(items) ==
  IF items = <<>> THEN {}
  ELSE (IF Head(items).pageNumber # NullPage
        THEN {Head(items).pageNumber} ELSE {})
       \cup TocPages(Head(items).items) \cup TocPages(Tail(items))

\* The entries are rendered when showToc, !tocLoading and toc has items,
\* whatever isLoading and error are.
TocListShown == isOpen /\ showToc /\ ~tocLoading /\ toc.set /\ Len(toc.items) > 0

\* The button of an entry with the page p (disabled={!item.pageNumber}):
\* onJump(p), that is setPageNumber(p).
ClickTocNode(p) ==
  /\ TocListShown
  /\ p \in TocPages(toc.items)
  /\ pageNumber' = p
  /\ UNCHANGED <<contents, isOpen, reqs, sessionVars, docProxy, numPages,
                 loadedFile, tocVars, urlVars, edits,
                 scaleVars, clientWidth, histVars>>

\* ------------------------------------------------------ specification
\* The preview session. The tabs are not part of it: the buffer edited is
\* the one active from the start (the tabs are in SpecHistory).
Next ==
  \/ OpenModal
  \/ CloseModal
  \/ \E f \in Files, v \in Contents : ChangeBuffer(f, v)
  \/ \E i \in 1..MaxRequests : ResolveRequest(i)
  \/ \E i \in 1..MaxRequests : RejectRequest(i)
  \/ \E i \in 1..MaxRequests : AbortSettles(i)
  \/ LoadSuccess
  \/ LoadError
  \/ ToggleToc
  \/ \E i \in 1..MaxResolutions : GetOutlineReturns(i)
  \/ \E i \in 1..MaxResolutions : GetOutlineRejects(i)
  \/ \E i \in 1..MaxResolutions : LookupsSettle(i)

Spec == Init /\ [][Next]_vars

\* The compile effect and the Document alone: the outline panel stays closed.
\* No action of the TOC effect reads or writes the requests, the session
\* state or the object URLs, so this is the session as far as they go.
NextCompile ==
  \/ OpenModal
  \/ CloseModal
  \/ \E f \in Files, v \in Contents : ChangeBuffer(f, v)
  \/ \E i \in 1..MaxRequests : ResolveRequest(i)
  \/ \E i \in 1..MaxRequests : RejectRequest(i)
  \/ \E i \in 1..MaxRequests : AbortSettles(i)
  \/ LoadSuccess
  \/ LoadError

SpecCompile == Init /\ [][NextCompile]_vars

\* Some pending request settles: its promise is fulfilled or rejected and
\* the handlers chained on it run.
Settle ==
  \E i \in 1..MaxRequests :
    ResolveRequest(i) \/ RejectRequest(i) \/ AbortSettles(i)

\* The compile effect when every issued request eventually settles (fetch
\* ends with a response, a failure or, once aborted, an AbortError).
SpecSettle == Init /\ [][NextCompile]_vars /\ WF_vars(Settle)

\* The promise of fetch and res.blob() of request i is fulfilled by a
\* response with any Content-Disposition header.
ResolveRequestAnyHeader(i) ==
  /\ i \in DOMAIN reqs
  /\ DeliversOutcome(reqs[i])
  /\ \E ok \in BOOLEAN, header \in Headers, doc \in Documents :
       ResponseArrives(i, ok, header, doc)

\* The requests of the session answered by responses with every kind of
\* header: the modal is opened and closed, the requests are answered and
\* the Document loads the artifact.
NextNames ==
  \/ OpenModal
  \/ CloseModal
  \/ \E i \in 1..MaxRequests : ResolveRequestAnyHeader(i)
  \/ \E i \in 1..MaxRequests : AbortSettles(i)
  \/ LoadSuccess
  \/ LoadError

SpecNames == Init /\ [][NextNames]_vars

\* The outline resolver on a session that is ready: the first request was
\* answered with some document and the Document has loaded it. These are the
\* states OpenModal, ResolveRequest(1), LoadSuccess lead to.
InitReady ==
  /\ contents = INITIAL_FILE_CONTENTS
  /\ isOpen = TRUE
  /\ reqs = << [NewRequest(INITIAL_FILE_CONTENTS) EXCEPT !.status = "fulfilled"] >>
  /\ isLoading = FALSE
  /\ error = NoError
  /\ \E doc \in Documents :
       /\ pdfBlob = [id |-> 1, pages |-> doc.pages, outline |-> doc.outline]
       /\ docProxy = pdfBlob
       /\ numPages = doc.pages
  /\ objectUrl = 1
  /\ \E ok \in BOOLEAN, header \in SessionHeaders :
       downloadName = [req |-> 1, name |-> CompiledFileName(header, ok)]
  /\ pageNumber = 1
  /\ showToc = FALSE
  /\ toc = NoToc
  /\ tocLoading = FALSE
  /\ loadedFile = 1
  /\ resolutions = <<>>
  /\ activeRes = 0
  /\ created = {1}
  /\ revokeCount = [u \in {} |-> 0]
  /\ edits = 0
  /\ viewerWidth = DefaultWidth
  /\ origW = 0
  /\ zoom = ZoomUnit
  /\ clientWidth = DefaultWidth
  /\ past = [f \in Files |-> <<>>]
  /\ future = [f \in Files |-> <<>>]
  /\ activeFile = FILE_NAMES[1]

NextOutline ==
  \/ ToggleToc
  \/ \E i \in 1..MaxResolutions : GetOutlineReturns(i)
  \/ \E i \in 1..MaxResolutions : GetOutlineRejects(i)
  \/ \E i \in 1..MaxResolutions : LookupsSettle(i)

SpecOutline == InitReady /\ [][NextOutline]_vars

\* The edit histories alone, the modal staying closed: edits, undo and redo
\* of the active buffer and the tabs.
NextHistory ==
  \/ \E v \in Contents : HandleContentChange(v)
  \/ HandleUndo
  \/ HandleRedo
  \/ HandleFormatUnchanged
  \/ \E f \in Files : SetActiveFile(f)

SpecHistory == Init /\ [][NextHistory]_vars

\* The edit histories with undo and redo events that come in pairs within
\* one render.
NextKeys ==
  \/ NextHistory
  \/ UndoTwiceInOneRender
  \/ RedoTwiceInOneRender

SpecKeys == Init /\ [][NextKeys]_vars

\* The edit histories while the preview is opened and closed and its
\* requests settle.
NextSnapshot ==
  \/ \E f \in Files, v \in Contents : ChangeBuffer(f, v)
  \/ HandleUndo
  \/ HandleRedo
  \/ \E f \in Files : SetActiveFile(f)
  \/ OpenModal
  \/ CloseModal
  \/ \E i \in 1..MaxRequests : RejectRequest(i)
  \/ \E i \in 1..MaxRequests : AbortSettles(i)

SpecSnapshot == Init /\ [][NextSnapshot]_vars

\* Zoom and scale on a session that is ready: the zoom buttons, the layout
\* changing the width of the viewer, and the pages reporting their width.
NextZoom ==
  \/ ZoomIn
  \/ ZoomOut
  \/ FitWidth
  \/ \E w \in ClientWidths : WindowResize(w)
  \/ ObserveResize
  \/ \E w \in PageWidths : PageLoadSuccess(w)

SpecZoom == InitReady /\ [][NextZoom]_vars

\* The whole session with the page navigation of the toolbar and the jumps
\* of the outline entries.
NextView ==
  \/ Next
  \/ ClickPrevPage
  \/ ClickNextPage
  \/ \E p \in TocPages(toc.items) : ClickTocNode(p)

SpecView == Init /\ [][NextView]_vars

\* A session with a loaded document whose pages are rasterized while the
\* user zooms, resizes, turns pages and edits a buffer, so that a newer
\* artifact is compiled and loaded.
NextWidth ==
  \/ NextZoom
  \/ ClickPrevPage
  \/ ClickNextPage
  \/ \E f \in Files, v \in Contents : ChangeBuffer(f, v)
  \/ \E i \in 1..MaxRequests : ResolveRequest(i)
  \/ \E i \in 1..MaxRequests : AbortSettles(i)
  \/ LoadSuccess
  \/ CloseModal

SpecWidth == InitReady /\ [][NextWidth]_vars

\* The compile effect, the Document and the page buttons of the toolbar:
\* the outline panel stays closed.
NextBrowse ==
  \/ NextCompile
  \/ ClickPrevPage
  \/ ClickNextPage

SpecBrowse == Init /\ [][NextBrowse]_vars

\* The two page handlers on a ready session: a document of n pages without
\* an outline has loaded, whatever n is.
InitPaging ==
  /\ contents = INITIAL_FILE_CONTENTS
  /\ isOpen = TRUE
  /\ reqs = << [NewRequest(INITIAL_FILE_CONTENTS) EXCEPT !.status = "fulfilled"] >>
  /\ isLoading = FALSE
  /\ error = NoError
  /\ \E n \in 1..MaxPages :
       /\ pdfBlob = [id |-> 1, pages |-> n, outline |-> 0]
       /\ docProxy = pdfBlob
       /\ numPages = n
  /\ objectUrl = 1
  /\ downloadName = [req |-> 1, name |-> SuccessName]
  /\ pageNumber = 1
  /\ showToc = FALSE
  /\ toc = NoToc
  /\ tocLoading = FALSE
  /\ loadedFile = 1
  /\ resolutions = <<>>
  /\ activeRes = 0
  /\ created = {1}
  /\ revokeCount = [u \in {} |-> 0]
  /\ edits = 0
  /\ viewerWidth = DefaultWidth
  /\ origW = 0
  /\ zoom = ZoomUnit
  /\ clientWidth = DefaultWidth
  /\ past = [f \in Files |-> <<>>]
  /\ future = [f \in Files |-> <<>>]
  /\ activeFile = FILE_NAMES[1]

NextPaging ==
  \/ PrevPageCalled
  \/ NextPageCalled

SpecPaging == InitPaging /\ [][NextPaging]_vars

\* ============================================================== claims

C2_CancelledSettlesSilently ==
  [][\A i \in DOMAIN reqs :
       (reqs[i].aborted /\ reqs[i].status = "pending"
          /\ reqs'[i].status # "pending")
       => UNCHANGED sessionVars]_vars

\* C3: no URL is revoked twice and only created URLs are revoked; once the
\* session is closed every created URL has been revoked (as many revoke
\* calls as create calls, so none was created after the close) and every
\* request still in flight has been aborted.
C3_CreateRevokePaired ==
  /\ \A u \in DOMAIN revokeCount : u \in created /\ revokeCount[u] <= 1
  /\ ~isOpen =>
       /\ LiveUrls = {}
       /\ \A i \in DOMAIN reqs : reqs[i].status = "pending" => reqs[i].aborted

\* C3 witness: a closed session that created a URL and was closed with a
\* request in flight.
C3_Witness ==
  /\ ~isOpen
  /\ created # {}
  /\ \E i \in DOMAIN reqs : reqs[i].status = "pending"

\* C4: at most one URL is created and not revoked, and it is the one held in
\* objectUrl; while the newest request is in flight there is none and
\* objectUrl is null; a URL exists only for a request that was fulfilled.
C4_OneLiveUrl ==
  /\ LiveUrls = IF objectUrl # 0 THEN {objectUrl} ELSE {}
  /\ (reqs # <<>> /\ reqs[Current].status = "pending") =>
       objectUrl = 0 /\ LiveUrls = {}
  /\ \A u \in created : reqs[u].status = "fulfilled"

\* C4 witness: a new request is in flight after an earlier one had produced
\* a URL, which has been revoked.
C4_Witness ==
  /\ isOpen
  /\ reqs[Current].status = "pending"
  /\ \E u \in created : Revokes(u) = 1

\* C5: while the session is open and its newest request has not settled,
\* isLoading is true and no artifact is shown.
C5_LoadingWhileInFlight ==
  (isOpen /\ reqs # <<>> /\ reqs[Current].status = "pending") =>
    isLoading /\ pdfBlob = NoBlob

\* C6: in the error phase no object URL is live.
C6_ErrorHasNoResource ==
  error # NoError => objectUrl = 0 /\ LiveUrls = {}

\* C7: a resolved toc was resolved from the current docProxy.
C7_TocOfCurrentHandle ==
  toc.set => toc.from = docProxy.id

\* C8: a run started for a handle that is no longer the docProxy never stores
\* its result in toc.
C8_StaleRunDiscarded ==
  [][\A i \in DOMAIN resolutions :
       (Running(resolutions[i]) /\ resolutions[i].doc # docProxy.id)
       => ~(toc' # toc /\ toc'.set /\ toc'.from = resolutions[i].doc)]_vars

\* The runs started for the handle d (each calls d.getOutline() once).
RunsOn(d) == {i \in DOMAIN resolutions : resolutions[i].doc = d}

\* C9: getOutline is invoked at most once per docProxy.
C9_ResolvedAtMostOnce ==
  \A i \in DOMAIN resolutions : Cardinality(RunsOn(resolutions[i].doc)) <= 1

\* Whether a destination leads to a page when no lookup fails.
Resolvable(dest) == dest.kind # "none" /\ Len(dest.refs) > 0

\* The tree out has the nodes of the outline src (the same number of items
\* at every level), the nodes of F have no page and every other node with a
\* resolvable destination has one.
RECURSIVE Isolated(_, _, _)
Isolated(src, F, out) ==
  /\ Len(out) = Len(src)
  /\ \A k \in 1..Len(src) :
       /\ src[k].id \in F => out[k].pageNumber = NullPage
       /\ (src[k].id \notin F /\ Resolvable(src[k].dest)) =>
            out[k].pageNumber # NullPage
       /\ Isolated(src[k].items, F, out[k].items)

\* C10: whatever set F of nodes has a failing lookup, the run is not aborted
\* (mapItems never throws) and the tree it stores has all the nodes of the
\* outline, no page for the nodes of F and a page for every other node with
\* a resolvable destination.
C10_FailureIsolated ==
  /\ \A i \in DOMAIN resolutions : resolutions[i].pc # "mapFailed"
  /\ (toc.set /\ toc.outline # 0) =>
       Isolated(OutlineOf(toc.outline), toc.failed, toc.items)

\* C10 witness: the lookup of the first node failed, and its child and its
\* later sibling have their pages.
C10_Witness ==
  /\ toc.set /\ toc.outline = 1 /\ toc.failed = {1}
  /\ toc.items[1].pageNumber = NullPage
  /\ toc.items[1].items[1].pageNumber # NullPage
  /\ toc.items[3].pageNumber # NullPage

\* The messages a failed request can leave in error: the message of the
\* transport error, or the fixed text when it has none.
FailureMessages ==
  {IF e.message # "" THEN e.message ELSE CompileFallbackMessage :
     e \in TransportErrors}

\* C11: when the request in flight that was not cancelled fails with anything
\* other than an abort, error becomes a non-empty message (the error's own or
\* the fixed text), isLoading becomes false, no object URL is created and
\* objectUrl is null before and after (the URL released when the request was
\* issued stays revoked).
C11_FailureEntersError ==
  [][\A i \in DOMAIN reqs :
       (reqs[i].live /\ reqs[i].status = "pending" /\ ~reqs[i].aborted
          /\ reqs'[i].status = "rejected")
       => /\ error' \in FailureMessages
          /\ error' # "" /\ error' # NoError
          /\ ~isLoading'
          /\ created' = created
          /\ objectUrl = 0 /\ objectUrl' = 0
          /\ UNCHANGED revokeCount]_vars

\* C11 witness: the second request failed with an error that has no message,
\* after the URL of the first artifact had been released.
C11_Witness ==
  /\ isOpen
  /\ Len(reqs) = 2 /\ reqs[2].status = "rejected"
  /\ error = CompileFallbackMessage
  /\ 1 \in created /\ Revokes(1) = 1
  /\ objectUrl = 0 /\ ~isLoading

\* The phase of the session in terms of the component's state: idle while
\* the modal is closed; error while a message is set; ready once the Document
\* has reported the load of the artifact that is shown; loading otherwise (a
\* request is in flight, or the Document is loading what it returned).
Loaded == pdfBlob.id # 0 /\ loadedFile = pdfBlob.id

Phase ==
  IF ~isOpen THEN "idle"
  ELSE IF error # NoError THEN "error"
  ELSE IF ~isLoading /\ Loaded THEN "ready"
  ELSE "loading"

\* C12: whenever the session enters ready, the object URL is live, docProxy
\* is the handle of the artifact shown, numPages is its page count,
\* pageNumber is 1 and toc is null.
C12_ReadyState ==
  [][(Phase # "ready" /\ Phase' = "ready")
       => /\ objectUrl' # 0 /\ objectUrl' \in LiveUrls'
          /\ docProxy' = pdfBlob'
          /\ numPages' = pdfBlob'.pages
          /\ pageNumber' = 1
          /\ toc' = NoToc]_vars

\* C13: while a render handle with at least one page is held, pageNumber
\* lies between 1 and the page count of that handle.
C13_PageWithinDocument ==
  (isOpen /\ docProxy.id # 0 /\ docProxy.pages >= 1) =>
    (1 <= pageNumber /\ pageNumber <= docProxy.pages)

\* C14: in every state the page handlers lead to, prevPage leaves page 1 at
\* 1 and otherwise goes back exactly one page, nextPage leaves the last page
\* where it is and otherwise goes forward exactly one page, and the page
\* stays between 1 and the page count.
C14_NavigationClamped ==
  /\ prevPage(pageNumber) = IF pageNumber = 1 THEN 1 ELSE pageNumber - 1
  /\ nextPage(numPages, pageNumber) =
       IF pageNumber = numPages THEN numPages ELSE pageNumber + 1
  /\ 1 <= pageNumber /\ pageNumber <= numPages

\* C14 witness: nextPage has walked a document of several pages to its last
\* page, where it is a no-op.
C14_Witness ==
  /\ numPages >= 3
  /\ pageNumber = numPages
  /\ nextPage(numPages, pageNumber) = pageNumber
  /\ prevPage(pageNumber) = pageNumber - 1

\* C15: a step of the previous-page or next-page button (the only steps of
\* an open session that change pageNumber and leave the Document's load
\* record alone while the outline panel is closed) is taken in the ready
\* phase only.
C15_NavigationOnlyWhenReady ==
  [][(isOpen /\ isOpen' /\ loadedFile' = loadedFile
        /\ pageNumber' # pageNumber)
       => Phase = "ready"]_vars

\* C16: a run of the outline resolver (a getOutline call) starts only with
\* the session in the ready phase, and on the handle of the artifact shown.
C16_ResolvesCurrentHandleOnly ==
  [][Len(resolutions') > Len(resolutions)
       => /\ Phase' = "ready"
          /\ resolutions'[Len(resolutions')].doc = pdfBlob'.id]_vars

\* C17: the phase changes only by a close (to idle), by a new request (to
\* loading, from any phase), from loading to ready when the Document reports
\* the load of the artifact of the newest request, which was not cancelled,
\* and from loading to error when the newest request fails or the Document
\* fails to load its artifact.
C17_PhaseTransitions ==
  [][Phase' # Phase =>
       \/ Phase' = "idle" /\ ~isOpen'
       \/ Phase' = "loading" /\ Len(reqs') = Len(reqs) + 1
       \/ /\ Phase = "loading" /\ Phase' = "ready"
          /\ Len(reqs') = Len(reqs)
          /\ pdfBlob'.id = Current /\ ~reqs[Current].aborted
          /\ docProxy' = pdfBlob'
       \/ /\ Phase = "loading" /\ Phase' = "error"
          /\ Len(reqs') = Len(reqs)
          /\ \/ reqs[Current].status = "pending"
                  /\ reqs'[Current].status = "rejected"
             \/ loadedFile' # loadedFile /\ loadedFile' = pdfBlob.id]_vars

\* C17 witness: a session that was ready with its first artifact, went back
\* to loading with a second request and entered error when that one failed.
C17_Witness ==
  /\ Phase = "error"
  /\ docProxy.id = 1
  /\ Len(reqs) = 2 /\ reqs[2].status = "rejected"

\* C18: a request that is in flight and was not aborted is the newest
\* request of an open session: issuing a request aborts the one before it
\* (and closing aborts the last), so at most one such request exists.
C18_OneRequestInFlight ==
  /\ \A i \in DOMAIN reqs :
       (reqs[i].status = "pending" /\ ~reqs[i].aborted) =>
         (i = Current /\ isOpen /\ reqs[i].live)
  /\ Cardinality({i \in DOMAIN reqs :
                    reqs[i].status = "pending" /\ ~reqs[i].aborted}) <= 1

\* C18 witness: two requests are in flight, the older one aborted.
C18_Witness ==
  /\ Len(reqs) = 2
  /\ reqs[1].status = "pending" /\ reqs[1].aborted
  /\ reqs[2].status = "pending" /\ ~reqs[2].aborted

\* C19: the release step run on a null objectUrl makes no revoke call, and
\* run twice in succession (the second time on the state the first returned)
\* it makes the calls of running it once: one call for a URL that was held,
\* none otherwise.
C19_ReleaseIdempotent ==
  LET once == ReleaseUpdater(revokeCount, objectUrl)
      twice == ReleaseUpdater(once, ReleaseUpdaterReturns(objectUrl))
  IN /\ ReleaseUpdater(revokeCount, 0) = revokeCount
     /\ twice = once
     /\ ReleaseUpdaterReturns(ReleaseUpdaterReturns(objectUrl)) =
          ReleaseUpdaterReturns(objectUrl)
     /\ IF objectUrl = 0 THEN once = revokeCount
        ELSE /\ once[objectUrl] = 1
             /\ \A u \in DOMAIN revokeCount : once[u] = revokeCount[u]

\* C19 witness: a buffer change ran the release step twice in succession
\* (in the cleanup and in the body of the compile effect) on the URL of the
\* first artifact, which was revoked once; objectUrl is null since.
C19_Witness ==
  /\ isOpen /\ edits >= 1
  /\ objectUrl = 0
  /\ 1 \in created /\ Revokes(1) = 1
  /\ reqs[Current].status = "pending"

\* C20: whenever a request of the open session can be answered, the answer
\* with a non-success status (whatever its header and body) is handled by
\* storing the body as the artifact and creating an object URL for it, with
\* error left null.
C20_FailureResponseIsShown ==
  \A i \in DOMAIN reqs :
    (reqs[i].live /\ DeliversOutcome(reqs[i])) =>
      \A header \in SessionHeaders, doc \in Documents :
        ENABLED (/\ ResponseArrives(i, FALSE, header, doc)
                 /\ pdfBlob'.id = i /\ pdfBlob'.pages = doc.pages
                 /\ objectUrl' = i /\ i \in created' /\ i \notin created
                 /\ error' = NoError)

\* C20 witness: the service answered with a failure status and no file name;
\* its body is the artifact, with a live URL and no error.
C20_Witness ==
  /\ isOpen
  /\ downloadName.name = ErrorName
  /\ pdfBlob.id = downloadName.req /\ pdfBlob.id # 0
  /\ objectUrl = pdfBlob.id /\ objectUrl \in LiveUrls
  /\ error = NoError

\* C21: no run of the outline resolver ends with its promise rejected (a
\* rejection that nothing handles), whether getOutline or a lookup failed.
C21_NoUnhandledRejection ==
  \A i \in DOMAIN resolutions :
    resolutions[i].pc \notin {"outlineFailed", "mapFailed"}

\* The nodes of an outline with their places: the path of a node is the
\* sequence of sibling positions leading to it from the top level.
RECURSIVE NodePlaces(_, _, _)
NodePlaces(items, k, prefix) ==
  IF k > Len(items) THEN {}
  ELSE {[id |-> items[k].id, path |-> Append(prefix, k)]}
       \cup NodePlaces(items[k].items, 1, Append(prefix, k))
       \cup NodePlaces(items, k + 1, prefix)

\* p comes before q in depth-first pre-order: p is a proper prefix of q (an
\* ancestor), or p turns to an earlier sibling where the two part.
Before(p, q) ==
  \/ Len(p) < Len(q) /\ SubSeq(q, 1, Len(p)) = p
  \/ \E k \in 1..Len(p) :
       /\ k <= Len(q)
       /\ SubSeq(p, 1, k - 1) = SubSeq(q, 1, k - 1)
       /\ p[k] < q[k]

\* t is the label s without its leading and trailing spaces.
IsTrimOf(t, s) ==
  /\ t = <<>> \/ (t[1] # " " /\ t[Len(t)] # " ")
  /\ \E a \in 0..Len(s) :
       /\ a + Len(t) <= Len(s)
       /\ SubSeq(s, a + 1, a + Len(t)) = t
       /\ \A k \in 1..Len(s) : (k <= a \/ k > a + Len(t)) => s[k] = " "

\* The tree out has one node per entry of src, in the same places, each with
\* the trimmed label of its entry.
RECURSIVE SameShape(_, _)
SameShape(src, out) ==
  /\ Len(out) = Len(src)
  /\ \A k \in 1..Len(src) :
       /\ IsTrimOf(out[k].title, src[k].title)
       /\ SameShape(src[k].items, out[k].items)

\* C25: the resolved tree has one node per entry of the outline it was
\* resolved from, with the same parents, children and sibling order and the
\* trimmed labels, and mapItems takes the entries up one at a time in
\* depth-first pre-order, each exactly once.
C25_StructurePreserved ==
  (toc.set /\ toc.outline # 0) =>
    LET src == OutlineOf(toc.outline)
        order == VisitOrder(src)
        places == NodePlaces(src, 1, <<>>)
        PathOf(n) == (CHOOSE pl \in places : pl.id = n).path
    IN /\ SameShape(src, toc.items)
       /\ Len(order) = Cardinality(places)
       /\ {order[k] : k \in 1..Len(order)} = {pl.id : pl \in places}
       /\ \A j, k \in 1..Len(order) :
            j < k => Before(PathOf(order[j]), PathOf(order[k]))

\* C25 witness: the outline with a nested level and padded labels has been
\* resolved.
C25_Witness ==
  /\ toc.set /\ toc.outline = 1
  /\ Len(toc.items) = 3
  /\ Len(toc.items[1].items) = 2
  /\ toc.items[1].title = <<"A">>
  /\ toc.items[1].items[1].title = <<"B">>
  /\ toc.items[1].items[2].title = <<>>

\* The page the claim assigns to a destination whose lookups succeed.
PageOfDest(dest) ==
  IF dest.kind = "none" \/ Len(dest.refs) = 0 THEN NullPage
  ELSE dest.refs[1] + 1

\* Every node of out whose lookups did not fail (it is not in F) has the
\* page of its entry's destination.
RECURSIVE PagesDerived(_, _, _)
PagesDerived(src, F, out) ==
  /\ Len(out) = Len(src)
  /\ \A k \in 1..Len(src) :
       /\ src[k].id \notin F => out[k].pageNumber = PageOfDest(src[k].dest)
       /\ PagesDerived(src[k].items, F, out[k].items)

\* The destinations of the entries of an outline, at every level.
RECURSIVE DestsOf(_)
DestsOf(items) ==
  IF items = <<>> THEN {}
  ELSE {Head(items).dest} \cup DestsOf(Head(items).items)
                          \cup DestsOf(Tail(items))

\* C26: in a resolved tree every node whose lookups succeeded has the page
\* index of the first reference of its explicit destination plus 1, and null
\* when it has no destination or an empty explicit form; an array
\* destination is never looked up with getDestination, a named one is looked
\* up with getDestination first, and getPageIndex is not called without a
\* first reference.
C26_PageFromDestination ==
  (toc.set /\ toc.outline # 0) =>
    LET src == OutlineOf(toc.outline)
    IN /\ PagesDerived(src, toc.failed, toc.items)
       /\ \A dest \in DestsOf(src) :
            LET calls == LookupCalls(dest)
                Called(c) == \E k \in 1..Len(calls) : calls[k] = c
            IN /\ dest.kind = "array" => ~Called("getDestination")
               /\ dest.kind = "named" =>
                    (calls # <<>> /\ calls[1] = "getDestination")
               /\ Called("getPageIndex") <=>
                    (dest.kind # "none" /\ Len(dest.refs) > 0)
               /\ Called("getPageIndex") => calls[Len(calls)] = "getPageIndex"
               /\ HasLookup(dest) <=> calls # <<>>

\* C26 witness: an outline with a named, an explicit, an empty and an absent
\* destination was resolved with every lookup succeeding.
C26_Witness ==
  /\ toc.set /\ toc.outline = 1 /\ toc.failed = {}
  /\ toc.items[1].pageNumber = 1
  /\ toc.items[1].items[1].pageNumber = 2
  /\ toc.items[1].items[2].pageNumber = NullPage
  /\ toc.items[2].pageNumber = NullPage
  /\ toc.items[3].pageNumber = 2

\* C27: when getOutline returns null to a run that was not cancelled, toc
\* becomes the empty sequence, which is not the null of a resolution not yet
\* attempted, and tocLoading becomes false; while toc is that result no run
\* is started, and toc and tocLoading stay as they are.
C27_NullOutlineIsEmptyResult ==
  [][ /\ \A i \in DOMAIN resolutions :
           ( /\ resolutions[i].pc = "outline"
             /\ ~resolutions[i].cancelled
             /\ resolutions[i].outline = 0
             /\ i \in DOMAIN resolutions'
             /\ resolutions'[i].pc = "done" )
           => /\ toc'.set /\ toc'.items = <<>> /\ toc' # NoToc
              /\ toc'.from = resolutions[i].doc
              /\ ~tocLoading'
              /\ Len(resolutions') = Len(resolutions)
      /\ (toc.set /\ toc.outline = 0 /\ toc.from = docProxy.id)
           => /\ toc' = toc
              /\ ~tocLoading'
              /\ Len(resolutions') = Len(resolutions)
    ]_vars

\* C27 witness: the panel is open on a document without outline, the run has
\* returned, toc is the empty sequence and another run could still start.
C27_Witness ==
  /\ showToc /\ docProxy.outline = 0
  /\ toc.set /\ toc.items = <<>> /\ toc.outline = 0 /\ toc.from = docProxy.id
  /\ ~tocLoading
  /\ Len(resolutions) < MaxResolutions
  /\ \A i \in DOMAIN resolutions : resolutions[i].pc = "done"

\* The name the claim gives for a response with this header and status.
SuggestedName(header, ok) ==
  IF header.star = "decodable" THEN StarName
  ELSE IF header.simple = "present" THEN SimpleName
  ELSE IF ok THEN SuccessName
  ELSE ErrorName

\* C28: whenever a request of the open session can be answered, the answer
\* with any header and status stores as the download name the decoded
\* extended form when the header has a decodable one, else the simple form
\* when it has one, else the generic success or error name by the status,
\* and never an empty name.
C28_SuggestedFileName ==
  \A i \in DOMAIN reqs :
    (reqs[i].live /\ DeliversOutcome(reqs[i])) =>
      \A header \in Headers, ok \in BOOLEAN, doc \in Documents :
        ENABLED (/\ ResponseArrives(i, ok, header, doc)
                 /\ downloadName'.req = i
                 /\ downloadName'.name = SuggestedName(header, ok)
                 /\ downloadName'.name # NoName)

\* C28 witness: a response carried a decodable extended name and the session
\* shows it as the download name of the artifact.
C28_Witness ==
  /\ isOpen
  /\ downloadName.name = StarName
  /\ pdfBlob.id = downloadName.req /\ pdfBlob.id # 0

\* Equality of two finite numbers given as quotients.
NumEq(a, b) == IsFinite(a) /\ IsFinite(b) /\ a.n * b.d = b.n * a.d

\* clamp: the nearest value of [0.25, 5] to the finite number x.
Clamp(x) ==
  IF x.n * 4 < x.d THEN Num(1, 4)
  ELSE IF x.n > 5 * x.d THEN Num(5, 1)
  ELSE x

\* The base fit-to-width ratio of the claims: containerWidth over
\* naturalPageWidth, and 1 while the page width is unknown or the container
\* has no width.
BaseRatio == IF origW = 0 \/ viewerWidth <= 0 THEN Num(1, 1)
             ELSE Num(viewerWidth, origW)

\* C22: the render scale is a finite value of [0.25, 5]; with a positive
\* container width and a known page width it is clamp(containerWidth /
\* naturalPageWidth * zoomFactor), which at zoomFactor 1 is clamp of the
\* ratio alone; with no page width or no container width it is
\* clamp(zoomFactor); and a raw scale that is not finite gives 1.
C22_ScaleClamped ==
  /\ IsFinite(EffectiveScale)
  /\ 4 * EffectiveScale.n >= EffectiveScale.d
  /\ EffectiveScale.n <= 5 * EffectiveScale.d
  /\ (viewerWidth > 0 /\ origW > 0) =>
       /\ NumEq(EffectiveScale, Clamp(Num(viewerWidth * zoom, origW * ZoomUnit)))
       /\ zoom = ZoomUnit => NumEq(EffectiveScale, Clamp(Num(viewerWidth, origW)))
  /\ (origW = 0 \/ viewerWidth <= 0) =>
       NumEq(EffectiveScale, Clamp(Num(zoom, ZoomUnit)))
  /\ \A bs \in {Infinity, NegInfinity} :
       /\ ~IsFinite(Times(OrOne(bs), OrOne(Num(zoom, ZoomUnit))))
       /\ effectiveScale(bs, zoom) = Num(1, 1)

\* C22 witness: the page is eight times narrower than the viewer and the
\* zoom is at its upper limit, so that the raw scale 24 is clamped to 5.
C22_Witness ==
  /\ viewerWidth = 8 /\ origW = 1 /\ zoom = ZoomMax
  /\ NumEq(EffectiveScale, Num(5, 1))

\* C23: the zoom factor is always a multiple of 0.1 within [0.5, 3]; from
\* any such value zoomIn gives the value plus 0.1, or 3 at 3, zoomOut the
\* value minus 0.1, or 0.5 at 0.5, fitWidth gives exactly 1, and every step
\* that changes the zoom factor is one of these.
C23_ZoomOnGrid ==
  [][ /\ zoom % ZoomStep = 0 /\ zoom >= ZoomMin /\ zoom <= ZoomMax
      /\ zoom' % ZoomStep = 0 /\ zoom' >= ZoomMin /\ zoom' <= ZoomMax
      /\ \A e \in FloatError :
           /\ zoomIn(zoom, e) = IF zoom = ZoomMax THEN zoom ELSE zoom + ZoomStep
           /\ zoomOut(zoom, e) = IF zoom = ZoomMin THEN zoom ELSE zoom - ZoomStep
      /\ fitWidth = ZoomUnit
      /\ zoom' \in {zoom, zoom + ZoomStep, zoom - ZoomStep, ZoomUnit}
    ]_vars

\* C23 witness: the zoom factor has been lowered from 1 to its lower limit.
C23_Witness == isOpen /\ zoom = ZoomMin

\* C24: from every zoom factor below the upper limit zoomIn then zoomOut
\* gives the same factor back, from every one above the lower limit zoomOut
\* then zoomIn does, and every step that brings the zoom factor to 1
\* (fitWidth from any other factor among them) leaves the render scale at
\* clamp(containerWidth / naturalPageWidth).
C24_ZoomComposesWithoutDrift ==
  [][ /\ zoom < ZoomMax =>
           \A e1 \in FloatError, e2 \in FloatError :
             zoomOut(zoomIn(zoom, e1), e2) = zoom
      /\ zoom > ZoomMin =>
           \A e1 \in FloatError, e2 \in FloatError :
             zoomIn(zoomOut(zoom, e1), e2) = zoom
      /\ zoom' = fitWidth => NumEq(EffectiveScale', Clamp(BaseRatio'))
    ]_vars

\* C24 witness: the zoom factor is 1 while the page is eight times wider than
\* the viewer, and the render scale is the clamped ratio 0.25.
C24_Witness ==
  /\ zoom = fitWidth /\ viewerWidth = 1 /\ origW = 8
  /\ NumEq(EffectiveScale, Num(1, 4))

\* The step gives the buffer f a new present by an edit, leaving the rest of
\* the linear history as the claim says.
EditStep(f) ==
  /\ past'[f] = Append(past[f], contents[f])
  /\ contents'[f] # contents[f]
  /\ future'[f] = <<>>

\* The step undoes in the buffer f: the last element of past has become the
\* present and the old present the first element of future.
UndoStep(f) ==
  /\ past[f] # <<>>
  /\ past[f] = past'[f] \o <<contents'[f]>>
  /\ future'[f] = <<contents[f]>> \o future[f]

\* The step redoes in the buffer f: the first element of future has become
\* the present and the old present the last element of past.
RedoStep(f) ==
  /\ future[f] # <<>>
  /\ future[f] = <<contents'[f]>> \o future'[f]
  /\ past'[f] = past[f] \o <<contents[f]>>

\* C29: every step that changes the history of a buffer is an edit, an undo
\* or a redo of the linear history {past, present, future}: a step that
\* counts as an edit appends the old present to past, sets a new present and
\* empties future; a step that shortens past is an undo, which needs past
\* non-empty, moves its last element to the present and puts the old present
\* at the front of future; a step that shortens future without an edit is a
\* redo, which needs future non-empty, moves its first element to the
\* present and appends the old present to past.
C29_LinearHistory ==
  [][ \A f \in Files :
        /\ (past'[f] # past[f] \/ future'[f] # future[f]
            \/ contents'[f] # contents[f])
             => (EditStep(f) \/ UndoStep(f) \/ RedoStep(f))
        /\ (edits' # edits /\ f = activeFile) => EditStep(f)
        /\ Len(past'[f]) < Len(past[f]) => UndoStep(f)
        /\ (edits' = edits /\ Len(future'[f]) < Len(future[f])) => RedoStep(f)
    ]_vars

\* C29 witness: a buffer was edited twice and both edits were undone, so
\* that its future holds the two undone texts in the order of redoing.
C29_Witness ==
  \E f \in Files :
    /\ past[f] = <<>>
    /\ contents[f] = "initial"
    /\ future[f] = <<"edited", "initial">>

\* C30: every step leaves the past, the present and the future of every file
\* other than the active one unchanged, and a step that changes the active
\* file changes no history at all.
C30_HistoryPerFile ==
  [][ /\ \A g \in Files :
           g # activeFile =>
             /\ past'[g] = past[g]
             /\ contents'[g] = contents[g]
             /\ future'[g] = future[g]
      /\ activeFile' # activeFile =>
           (past' = past /\ contents' = contents /\ future' = future)
    ]_vars

\* C30 witness: two buffers have histories of their own (one with an edit to
\* undo, one with an undone edit to redo) while a third is active.
C30_Witness ==
  \E f \in Files, g \in Files :
    /\ f # g /\ activeFile \notin {f, g}
    /\ past[f] = <<"initial">> /\ contents[f] = "edited" /\ future[f] = <<>>
    /\ past[g] = <<>> /\ contents[g] = "initial" /\ future[g] = <<"edited">>
    /\ past[activeFile] = <<>> /\ future[activeFile] = <<>>

\* C31: every step that is an edit of the active file leaves that file's
\* future empty, so that canRedo is false after it; when the edit followed
\* undos, the texts they had put into future are gone.
C31_EditTruncatesFuture ==
  [][ edits' # edits =>
        /\ future'[activeFile] = <<>>
        /\ ~canRedo([past |-> past'[activeFile],
                     present |-> contents'[activeFile],
                     future |-> future'[activeFile]])
        /\ activeFile' = activeFile
    ]_vars

\* C31 witness: the active buffer was edited, the edit undone, and the buffer
\* edited again: two edits have left one text in past and none in future.
C31_Witness ==
  /\ edits = 2
  /\ past[activeFile] = <<"initial">>
  /\ contents[activeFile] = "edited"
  /\ future[activeFile] = <<>>
  /\ \A g \in Files \ {activeFile} : past[g] = <<>> /\ future[g] = <<>>

\* The texts of the buffer f in the order of the history: past, present,
\* future.
Timeline(f) == past[f] \o <<contents[f]>> \o future[f]

\* C35: every step that is no edit (an undo, a redo, a tab switch) leaves
\* past followed by present followed by future unchanged for every file;
\* and in every state undo followed by redo, when undo is possible, and
\* redo followed by undo, when redo is possible, give back the history of
\* the file exactly.
C35_UndoRedoMoveCursor ==
  [][ \A f \in Files :
        /\ edits' = edits => Timeline(f)' = Timeline(f)
        /\ canUndo(HistoryOf(f)) =>
             handleRedo(handleUndo(HistoryOf(f))) = HistoryOf(f)
        /\ canRedo(HistoryOf(f)) =>
             handleUndo(handleRedo(HistoryOf(f))) = HistoryOf(f)
    ]_vars

\* C35 witness: the cursor of a buffer stands between its two edits, with one
\* text to undo to and one to redo to.
C35_Witness ==
  \E f \in Files :
    /\ past[f] = <<"initial">>
    /\ contents[f] = "edited"
    /\ future[f] = <<"initial">>

\* C36: every step that changes the present of no file (a call of
\* recordChange with the present of the active file among them) changes no
\* past and no future; and recordChange with the present of a file returns
\* the history of the file as it is.
C36_SameContentKeepsHistory ==
  [][ /\ contents' = contents => (past' = past /\ future' = future)
      /\ \A f \in Files :
           recordChange(HistoryOf(f), contents[f]) = HistoryOf(f)
    ]_vars

\* C36 witness: Index.md is active with a text to undo to and one to redo
\* to, so that a push to past or a cleared future would show.
C36_Witness ==
  /\ activeFile = "Index.md"
  /\ past["Index.md"] # <<>>
  /\ future["Index.md"] # <<>>

\* C34: the present of every file is a defined text, also after undo or redo
\* events handled in pairs within one render.
C34_PresentDefined ==
  \A f \in Files : contents[f] # Undefined

\* C32: the outline loading indicator never sticks: when the panel is open,
\* the outline is resolved and no run of the TOC effect is in progress,
\* tocLoading is false (no run is left that would clear it, so that the
\* panel shows the outline and not the loading message).
C32_LoadingNeverSticks ==
  (showToc /\ toc.set /\ \A i \in DOMAIN resolutions : ~Running(resolutions[i]))
    => ~tocLoading

\* A step that changes the present of some buffer.
PresentChanges == \E f \in Files : contents'[f] # contents[f]

\* C33: while the session is open the current request carries the current
\* contents of the three buffers; a change of a present while open issues a
\* new request with the new snapshot, after aborting the one in flight; the
\* payload of an issued request is never altered.
C33_CurrentCarriesSnapshot ==
  /\ [](isOpen => (Current > 0 /\ reqs[Current].live
                   /\ reqs[Current].payload = Snapshot(contents)))
  /\ [][/\ Len(reqs') >= Len(reqs)
        /\ \A i \in DOMAIN reqs : reqs'[i].payload = reqs[i].payload
        /\ (isOpen /\ PresentChanges) =>
              /\ Len(reqs') = Len(reqs) + 1
              /\ reqs'[Current'].status = "pending"
              /\ reqs'[Current'].payload = Snapshot(contents')
              /\ reqs[Current].status = "pending" => reqs'[Current].aborted]_vars

\* The second request of an open session was issued by an undo and
\* superseded the first, which was in flight.
C33_Witness ==
  /\ isOpen
  /\ Len(reqs) = 2
  /\ reqs[1].aborted
  /\ reqs[1].payload # reqs[2].payload
  /\ reqs[2].payload = contents
  /\ \E f \in Files : future[f] # <<>> /\ contents[f] # reqs[1].payload[f]

\* C37: origW is recorded by the load of a rasterized page only, and once
\* it is set no step changes it while the modal stays mounted: zoom, page
\* turns, resizes, and the compilation and loading of a newer artifact.
C37_OrigWSetOnce ==
  [][/\ (origW # 0 /\ isOpen') => origW' = origW
     /\ (origW = 0 /\ origW' # 0) => (PageShown /\ origW' \in PageWidths)]_vars

\* origW was recorded from a page of the first artifact, and a page of the
\* second artifact, loaded since, has another width or zoom.
C37_Witness ==
  /\ isOpen
  /\ origW = 1
  /\ pdfBlob.id = 2
  /\ loadedFile = 2
  /\ docProxy.id = 2
  /\ zoom # ZoomUnit
  /\ pageNumber > 1
  /\ viewerWidth # DefaultWidth

\* Every issued request has settled.
AllSettled == \A i \in DOMAIN reqs : reqs[i].status # "pending"

\* The session is not loading and shows the artifact of the last request or
\* an error message.
ShowsOutcome ==
  /\ ~isLoading
  /\ pdfBlob.id = Current \/ error # NoError

\* C38: the session does not stay in loading forever: when every issued
\* request settles, an open session comes to a state where all requests
\* have settled, and in every such state isLoading is false and the
\* artifact of the last request or an error message is shown.
C38_LoadingEnds ==
  /\ [](isOpen /\ AllSettled => ShowsOutcome)
  /\ (isOpen /\ isLoading) ~> (~isOpen \/ (AllSettled /\ ShowsOutcome))

\* Two requests were issued in the open session, the first was superseded
\* and both have settled: the artifact of the second is shown.
C38_Witness ==
  /\ isOpen
  /\ Len(reqs) = 2
  /\ reqs[1].aborted
  /\ AllSettled
  /\ ~isLoading
  /\ pdfBlob.id = 2

====
